---- MODULE Spec2Model ----
(***************************************************************************)
(* Model of src/transform.py: the Transform filter-graph builder.          *)
(*                                                                         *)
(* One root Transform is built on the input file RootFile; the public      *)
(* methods are called on it in any order.  Text (self.filter, the command) *)
(* is a sequence of tokens whose concatenation is the Python string; the   *)
(* separators "," and ";" and the brackets "[" and "]" are tokens of their *)
(* own.  A float is a pair <<n, d>> standing for n/d (d a power of two or  *)
(* of ten), formatted the way Python's str() prints it.                    *)
(***************************************************************************)
EXTENDS Integers, Sequences, FiniteSets, TLC

\* ------------------------------------------------------------------ bounds
\* number of public calls made on the root
MaxCalls == 3

\* ------------------------------------------------------------- the state
VARIABLES
    input,          \* self.input of the root: the registered files
    temp_idx,       \* self.temp_idx of the root
    filter,         \* self.filter of the root, as tokens
    name,           \* self.name of the root, None or a node name
    now_duration,   \* self.now_duration of the root: <<>> (None) or <<start, end, den>>
    probes,         \* how many times ffprobe was run
    gen,            \* the names __gen_temp returned, in order
    call,           \* the last public call and its arguments
    err,            \* the exception the last public call raised, "" if none
    trace,          \* positions of methods that the last mixed() called and that returned
    cmd,            \* the list the last generate_cmd returned
    ncalls,         \* number of public calls so far
    engine,         \* how many times ffmpeg was run
    argv            \* the parsed command line of command.py, NoArgv without one

vars == <<input, temp_idx, filter, name, now_duration, probes, gen, call, err,
          trace, cmd, ncalls, engine, argv>>

None == "None"
NoDuration == <<>>
RootFile == "in.mp4"

\* ------------------------------------------------------------ formatting
RECURSIVE FracDigits(_, _)
FracDigits(r, d) ==
    IF r = 0 THEN ""
    ELSE ToString((r * 10) \div d) \o FracDigits((r * 10) % d, d)

\* str(x) of the float n/d, d > 0 (format's '{}' prints the same)
FmtFloat(n, d) ==
    LET a == IF n < 0 THEN -n ELSE n
        frac == IF a % d = 0 THEN "0" ELSE FracDigits(a % d, d)
    IN (IF n < 0 THEN "-" ELSE "") \o ToString(a \div d) \o "." \o frac

\* str(i) of the int i
FmtInt(i) == IF i < 0 THEN "-" \o ToString(-i) ELSE ToString(i)

RECURSIVE Text(_)
\* the Python string a token sequence stands for
Text(toks) == IF toks = <<>> THEN "" ELSE Head(toks) \o Text(Tail(toks))

\* '[{}]'.format(n)
Label(n) == <<"[", n, "]">>

\* ------------------------------------------------- branch-local methods
\* A branch is [filter, name]: the two fields the chaining methods touch.

sep(b, s) == IF b.filter # <<>> THEN <<s>> ELSE <<>>

chain(b, frag) ==
    IF b.name # None
    THEN [filter |-> b.filter \o Label(b.name) \o frag, name |-> None]
    ELSE [filter |-> b.filter \o sep(b, ",") \o frag, name |-> b.name]

scale(b, ratio) ==
    IF ratio[1] # ratio[2]
    THEN LET r == FmtFloat(ratio[1], ratio[2])
         IN chain(b, <<"scale=round(iw*" \o r \o "/2)*2:round(ih*" \o r \o "/2)*2">>)
    ELSE b

mirror(b) == chain(b, <<"hflip">>)

rotate(b, angle) ==
    LET a == angle % 360
        radian == FmtFloat(a, 1) \o "*PI/180"
    IN CASE a = 90  -> chain(b, <<"transpose=1">>)
         [] a = 180 -> chain(b, <<"transpose=1", ",", "transpose=1">>)
         [] a = 270 -> chain(b, <<"transpose=2">>)
         [] a # 0 /\ a \notin {90, 180, 270} ->
              chain(b, <<"rotate=" \o radian \o ":iw*abs(cos(" \o radian
                         \o "))+ih*abs(sin(" \o radian \o ")):iw*abs(sin("
                         \o radian \o "))+ih*abs(cos(" \o radian
                         \o ")):fillcolor=none">>)
         [] OTHER -> b

brightness(b, br) ==
    chain(b, <<"eq=brightness=" \o FmtFloat(br[1], br[2])>>)

crop(b, w, h, x, y) ==
    chain(b, <<"crop=" \o w \o ":" \o h \o ":" \o FmtInt(x) \o ":" \o FmtInt(y)>>)

\* padding with left and top swapped in the offsets
padding_swapped_offsets(b, top, right, bottom, left) ==
    chain(b, <<"pad=iw+" \o FmtInt(left) \o "+" \o FmtInt(right)
               \o ":ih+" \o FmtInt(top) \o "+" \o FmtInt(bottom)
               \o ":" \o FmtInt(top) \o ":" \o FmtInt(left)>>)

padding(b, top, right, bottom, left) ==
    chain(b, <<"pad=iw+" \o FmtInt(left) \o "+" \o FmtInt(right)
               \o ":ih+" \o FmtInt(top) \o "+" \o FmtInt(bottom)
               \o ":" \o FmtInt(left) \o ":" \o FmtInt(top)>>)

alpha(b, al) ==
    IF al[1] # al[2]
    THEN chain(b, <<"format=rgba", ",", "colorchannelmixer=aa=" \o FmtFloat(al[1], al[2])>>)
    ELSE b

\* ------------------------------------------------ methods on the root
\* A world is the root object together with what its calls can touch:
\* [input, temp_idx, filter, name, now_duration, probes, gen, err].

SelfBranch(w) == [filter |-> w.filter, name |-> w.name]
WithBranch(w, b) == [w EXCEPT !.filter = b.filter, !.name = b.name]

\* __input naming the new entry by the length of the registry
add_input_one_based(w, file) ==
    LET reg == Append(w.input, file)
    IN [w |-> [w EXCEPT !.input = reg], nm |-> FmtInt(Len(reg))]

\* Transform.__input: appends to the root's registry; the returned name is
\* the field nm of the result
add_input(w, file) ==
    LET reg == Append(w.input, file)
    IN [w |-> [w EXCEPT !.input = reg], nm |-> FmtInt(Len(reg) - 1)]

\* Transform.__init__ with _parent given: the child branch and the world
Child(w, file) ==
    LET r == add_input(w, file)
    IN [w |-> r.w, b |-> [filter |-> <<>>, name |-> r.nm]]

\* gen_temp forgetting to store the incremented counter
gen_temp_no_store(w) ==
    LET n == w.temp_idx + 1
    IN [w |-> [w EXCEPT !.gen = Append(@, "temp" \o FmtInt(n))],
        nm |-> "temp" \o FmtInt(n)]

gen_temp(w) ==
    LET n == w.temp_idx + 1
    IN [w |-> [w EXCEPT !.temp_idx = n, !.gen = Append(@, "temp" \o FmtInt(n))],
        nm |-> "temp" \o FmtInt(n)]

\* __end taking a temporary name without writing its label
end_no_label(w, b) ==
    IF b.name # None
    THEN [w |-> w, b |-> b, nm |-> b.name]
    ELSE LET g == gen_temp(w)
         IN [w |-> g.w, b |-> b, nm |-> g.nm]

\* Transform.__end on branch b: [w, b, nm]
end(w, b) ==
    IF b.name # None
    THEN [w |-> w, b |-> b, nm |-> b.name]
    ELSE LET g == gen_temp(w)
         IN [w |-> g.w, b |-> [b EXCEPT !.filter = @ \o Label(g.nm)], nm |-> g.nm]

\* merge forgetting to clear self.name
merge_keeps_name(w, another, merger) ==
    LET e1 == end(w, SelfBranch(w))
        e2 == end(WithBranch(e1.w, e1.b), another)
        me == SelfBranch(e2.w)
    IN [e2.w EXCEPT
          !.filter = me.filter \o sep(me, ";") \o e2.b.filter \o <<";">>
                     \o Label(e1.nm) \o Label(e2.nm) \o merger]

\* Transform.__merge of the root with the child branch another
merge(w, another, merger) ==
    LET e1 == end(w, SelfBranch(w))
        e2 == end(WithBranch(e1.w, e1.b), another)
        me == SelfBranch(e2.w)
    IN [e2.w EXCEPT
          !.filter = me.filter \o sep(me, ";") \o e2.b.filter \o <<";">>
                     \o Label(e1.nm) \o Label(e2.nm) \o merger,
          !.name = None]

Missing == "<missing>"

\* watermark applying rotate before scale on the child
watermark_rotate_first(w, kw) ==
    IF kw.image = "<missing>"
    THEN [w EXCEPT !.err = "TypeError: watermark() missing 1 required positional argument: 'image'"]
    ELSE LET c == Child(w, kw.image)
             b == alpha(scale(rotate(c.b, kw.angle), kw.scale), kw.alpha)
         IN merge(c.w, b, <<"overlay=" \o FmtInt(kw.x) \o ":" \o FmtInt(kw.y)>>)

\* kw = [image, alpha, x, y, scale, angle]; image = Missing when the caller
\* gave none (a TypeError: image has no default)
watermark(w, kw) ==
    IF kw.image = Missing
    THEN [w EXCEPT !.err = "TypeError: watermark() missing 1 required positional argument: 'image'"]
    ELSE LET c == Child(w, kw.image)
             b == alpha(rotate(scale(c.b, kw.scale), kw.angle), kw.alpha)
         IN merge(c.w, b, <<"overlay=" \o FmtInt(kw.x) \o ":" \o FmtInt(kw.y)>>)

RECURSIVE GCD(_, _)
GCD(a, b) == IF b = 0 THEN a ELSE GCD(b, a % b)
Abs(x) == IF x < 0 THEN -x ELSE x

\* the float pair (s/d, e/d) with the smallest common denominator
Window(s, e, d) ==
    LET g == GCD(GCD(Abs(s), Abs(e)), d)
    IN <<s \div g, e \div g, d \div g>>

\* what ffprobe answers when it is asked: <<seconds>>, or ProbeFailed (a
\* non-zero exit, or 'N/A', which float() rejects)
ProbeFailed == <<>>

\* duration asking ffprobe before it checks the ratios
duration_probe_first(w, kw, probe) ==
    LET sr == kw.start_ratio
        r == kw.ratio
        asked == w.now_duration = NoDuration
        w1 == [w EXCEPT !.probes = IF asked THEN @ + 1 ELSE @]
    IN IF asked /\ probe = ProbeFailed
       THEN [w1 EXCEPT !.err = "ffprobe failed"]
       ELSE IF sr[1] * r[2] + r[1] * sr[2] > sr[2] * r[2]
       THEN [w1 EXCEPT !.now_duration = IF asked THEN <<0, probe[1], 1>> ELSE @,
                       !.err = "AssertionError: should not longer than original video"]
       ELSE LET now == IF asked THEN <<0, probe[1], 1>> ELSE w.now_duration
                length == now[2] - now[1]
                d == now[3] * sr[2] * r[2]
                start == (now[1] * sr[2] + length * sr[1]) * r[2]
                endw == start + length * r[1] * sr[2]
            IN [w1 EXCEPT !.now_duration = Window(start, endw, d)]

\* duration asking ffprobe on every call, the window it has or not
duration_no_memo(w, kw, probe) ==
    LET sr == kw.start_ratio
        r == kw.ratio
    IN IF sr[1] * r[2] + r[1] * sr[2] > sr[2] * r[2]
       THEN [w EXCEPT !.err = "AssertionError: should not longer than original video"]
       ELSE IF probe = ProbeFailed
       THEN [w EXCEPT !.probes = @ + 1, !.err = "ffprobe failed"]
       ELSE LET now == IF w.now_duration = NoDuration
                       THEN <<0, probe[1], 1>> ELSE w.now_duration
                length == now[2] - now[1]
                d == now[3] * sr[2] * r[2]
                start == (now[1] * sr[2] + length * sr[1]) * r[2]
                endw == start + length * r[1] * sr[2]
            IN [w EXCEPT !.probes = @ + 1,
                         !.now_duration = Window(start, endw, d)]

\* kw = [start_ratio, ratio]; probe is the answer ffprobe gives if asked
duration(w, kw, probe) ==
    LET sr == kw.start_ratio
        r == kw.ratio
    IN IF sr[1] * r[2] + r[1] * sr[2] > sr[2] * r[2]
       THEN [w EXCEPT !.err = "AssertionError: should not longer than original video"]
       ELSE IF w.now_duration = NoDuration /\ probe = ProbeFailed
       THEN [w EXCEPT !.probes = @ + 1, !.err = "ffprobe failed"]
       ELSE LET asked == w.now_duration = NoDuration
                now == IF asked THEN <<0, probe[1], 1>> ELSE w.now_duration
                length == now[2] - now[1]
                d == now[3] * sr[2] * r[2]
                start == (now[1] * sr[2] + length * sr[1]) * r[2]
                endw == start + length * r[1] * sr[2]
            IN [w EXCEPT !.probes = IF asked THEN @ + 1 ELSE @,
                         !.now_duration = Window(start, endw, d)]

RECURSIVE InputArgs(_)
InputArgs(files) ==
    IF files = <<>> THEN <<>> ELSE <<"-i", Head(files)>> \o InputArgs(Tail(files))

\* the list generate_cmd returns
generate_cmd(w, output, quiet, y, accurate_seek, other_commands) ==
    <<"ffmpeg">> \o InputArgs(w.input)
    \o (IF w.now_duration # NoDuration
        THEN <<"-ss", FmtFloat(w.now_duration[1], w.now_duration[3]),
               "-t", FmtFloat(w.now_duration[2], w.now_duration[3])>>
             \o (IF accurate_seek THEN <<"-accurate_seek", "-avoid_negative_ts", "1">> ELSE <<>>)
        ELSE <<>>)
    \o (IF w.filter # <<>> THEN <<"-filter_complex", Text(w.filter)>> ELSE <<>>)
    \o (IF quiet THEN <<"-v", "quiet">> ELSE <<>>)
    \o (IF y THEN <<"-y">> ELSE <<>>)
    \o other_commands
    \o <<output>>

\* the assertion of generate_cmd and duration: self.parent is self
RootRequired == "AssertionError: should be called against main branch"

\* subprocess.run(..., check=True) when ffmpeg exits non-zero
EngineFailed == "CalledProcessError: ffmpeg returned non-zero exit status"

\* duration without its first assertion
duration_on_unchecked(w, main, kw, probe) == duration(w, kw, probe)

\* Transform.duration called on a branch of the root w; main is
\* self.parent is self
duration_on(w, main, kw, probe) ==
    IF ~main THEN [w EXCEPT !.err = RootRequired] ELSE duration(w, kw, probe)

\* Transform.generate_cmd called on a branch of the root w: [err, cmd]
generate_cmd_on(w, main, output, quiet, y, accurate_seek, other_commands) ==
    IF ~main THEN [err |-> RootRequired, cmd |-> <<>>]
    ELSE [err |-> "",
          cmd |-> generate_cmd(w, output, quiet, y, accurate_seek, other_commands)]

\* run starting ffmpeg whether or not generate_cmd raised
run_engine_first(w, main, output, engine_ok) ==
    LET g == generate_cmd_on(w, main, output, TRUE, TRUE, FALSE, <<>>)
    IN [err |-> IF g.err # "" THEN g.err ELSE IF engine_ok THEN "" ELSE EngineFailed,
        cmd |-> g.cmd, engine |-> 1]

\* Transform.run(output) on a branch of the root w: [err, cmd, engine], cmd
\* the command handed to ffmpeg and engine the number of times it was run
run(w, main, output, engine_ok) ==
    LET g == generate_cmd_on(w, main, output, TRUE, TRUE, FALSE, <<>>)
    IN IF g.err # ""
       THEN [err |-> g.err, cmd |-> <<>>, engine |-> 0]
       ELSE [err |-> IF engine_ok THEN "" ELSE EngineFailed, cmd |-> g.cmd, engine |-> 1]

\* ------------------------------------------------------------- mixed
\* Transform.methods
methods == <<"watermark", "padding", "duration", "scale", "rotate",
             "brightness", "mirror", "crop">>

MethodNames == {methods[i] : i \in 1..Len(methods)}

\* the keyword arguments a method runs with when the caller gives none
DefaultKw(m) ==
    CASE m = "watermark"  -> [image |-> Missing, alpha |-> <<1, 1>>, x |-> 0, y |-> 0,
                              scale |-> <<1, 1>>, angle |-> 0]
      [] m = "padding"    -> [top |-> 0, right |-> 0, bottom |-> 0, left |-> 0]
      [] m = "duration"   -> [start_ratio |-> <<0, 1>>, ratio |-> <<1, 1>>]
      [] m = "scale"      -> [ratio |-> <<1, 1>>]
      [] m = "rotate"     -> [angle |-> 0]
      [] m = "brightness" -> [brightness |-> <<0, 1>>]
      [] m = "mirror"     -> [none |-> 0]
      [] m = "crop"       -> [w |-> "iw", h |-> "ih", x |-> 0, y |-> 0]

\* getattr(self, method)(**kwargs) on the root
invoke(w, method, kw, probe) ==
    CASE method = "watermark"  -> watermark(w, kw)
      [] method = "padding"    ->
           WithBranch(w, padding(SelfBranch(w), kw.top, kw.right, kw.bottom, kw.left))
      [] method = "duration"   -> duration_on(w, TRUE, kw, probe)
      [] method = "scale"      -> WithBranch(w, scale(SelfBranch(w), kw.ratio))
      [] method = "rotate"     -> WithBranch(w, rotate(SelfBranch(w), kw.angle))
      [] method = "brightness" -> WithBranch(w, brightness(SelfBranch(w), kw.brightness))
      [] method = "mirror"     -> WithBranch(w, mirror(SelfBranch(w)))
      [] method = "crop"       -> WithBranch(w, crop(SelfBranch(w), kw.w, kw.h, kw.x, kw.y))

RECURSIVE apply_sampled(_, _, _, _, _, _)
\* the for loop of mixed from its i-th iteration on: [w, trace]
apply_sampled(w, ms, sample, kws, probe, i) ==
    IF i > Len(sample)
    THEN [w |-> w, trace |-> sample]
    ELSE LET w1 == invoke(w, ms[sample[i]], kws[i], probe)
         IN IF w1.err # ""
            THEN [w |-> w1, trace |-> SubSeq(sample, 1, i - 1)]
            ELSE apply_sampled(w1, ms, sample, kws, probe, i + 1)

\* mixed drawing with random.choices: no size check
mixed_no_check(w, ms, k, sample, kws, probe) ==
    apply_sampled(w, ms, sample, kws, probe, 1)

\* mixed(args, methods=ms, k) with k already resolved by choice(k); sample
\* is the list of positions random.sample draws and kws[i] the keyword
\* arguments choice() resolves for the i-th sampled method
mixed(w, ms, k, sample, kws, probe) ==
    IF k > Len(ms) \/ k < 0
    THEN [w |-> [w EXCEPT !.err = "ValueError: Sample larger than population or is negative"],
          trace |-> <<>>]
    ELSE apply_sampled(w, ms, sample, kws, probe, 1)

\* sampling with replacement (random.choices)
Samples_with_replacement(n, k) == [1..k -> 1..n]

\* what random.sample(ms, k) can return, as positions of ms
Samples(n, k) ==
    {s \in [1..k -> 1..n] : \A i, j \in 1..k : i # j => s[i] # s[j]}

RECURSIVE KwSeqs(_, _)
\* the keyword arguments choice() can resolve for the methods named
KwSeqs(args, names) ==
    IF names = <<>> THEN {<<>>}
    ELSE {<<h>> \o t : h \in args[Head(names)], t \in KwSeqs(args, Tail(names))}

\* -------------------------------------------------- the calls explored
ScaleRatios == {<<1, 1>>, <<1, 2>>}
Angles == {180, 45}
Brightnesses == {<<0, 1>>}
PaddingKws == {[top |-> 5, right |-> 3, bottom |-> 4, left |-> 2]}
CropKws == {DefaultKw("crop")}
DurationKws == {[start_ratio |-> <<0, 1>>, ratio |-> <<1, 1>>],
                [start_ratio |-> <<1, 2>>, ratio |-> <<1, 2>>],
                [start_ratio |-> <<1, 2>>, ratio |-> <<1, 1>>],
                [start_ratio |-> <<-1, 2>>, ratio |-> <<1, 1>>]}
ProbeAnswers == {ProbeFailed, <<8>>}
WatermarkKws ==
    {[image |-> "logo.png", alpha |-> <<1, 2>>, x |-> 10, y |-> 20,
      scale |-> <<1, 1>>, angle |-> 0],
     [image |-> "logo.png", alpha |-> <<1, 1>>, x |-> 0, y |-> 0,
      scale |-> <<1, 1>>, angle |-> 0],
     [image |-> "logo.png", alpha |-> <<1, 2>>, x |-> 0, y |-> 0,
      scale |-> <<1, 2>>, angle |-> 90]}

\* args = {}: every method runs with its defaults
NoArgs == [m \in MethodNames |-> {DefaultKw(m)}]
\* args = {'watermark': {'image': 'logo.png', 'alpha': 0.5},
\*         'duration': {'start_ratio': 0.5, 'ratio': 0.5}}
SomeArgs == [NoArgs EXCEPT
    !["watermark"] = {[image |-> "logo.png", alpha |-> <<1, 2>>, x |-> 0, y |-> 0,
                       scale |-> <<1, 1>>, angle |-> 0]},
    !["duration"] = {[start_ratio |-> <<1, 2>>, ratio |-> <<1, 2>>]}]

\* the (methods, args) pairs mixed is called with
MixedInputs ==
    {[ms |-> <<"crop", "brightness">>, args |-> NoArgs, noargs |-> TRUE],
     [ms |-> <<"watermark", "mirror">>, args |-> NoArgs, noargs |-> TRUE],
     [ms |-> <<"duration", "watermark">>, args |-> SomeArgs, noargs |-> FALSE],
     [ms |-> <<"mirror", "mirror">>, args |-> NoArgs, noargs |-> TRUE]}

NoArgv == [input |-> <<>>, function |-> <<>>, mixed |-> FALSE, image |-> <<>>]

NoCall == [op |-> "__init__", kw |-> [none |-> 0], ms |-> <<>>, k |-> 0,
           sample |-> <<>>, noargs |-> FALSE]

\* ------------------------------------------------------------------ Init
\* Transform(RootFile): Transform.__init__ with _parent None
Transform(file) ==
    LET r == add_input([input |-> <<>>, temp_idx |-> 0, filter |-> <<>>, name |-> None,
                        now_duration |-> NoDuration, probes |-> 0, gen |-> <<>>,
                        err |-> ""], file)
    IN [r.w EXCEPT !.name = r.nm]

Cur == [input |-> input, temp_idx |-> temp_idx, filter |-> filter, name |-> name,
        now_duration |-> now_duration, probes |-> probes, gen |-> gen, err |-> ""]

Set(w) ==
    /\ input' = w.input
    /\ temp_idx' = w.temp_idx
    /\ filter' = w.filter
    /\ name' = w.name
    /\ now_duration' = w.now_duration
    /\ probes' = w.probes
    /\ gen' = w.gen
    /\ err' = w.err

Init ==
    LET w == Transform(RootFile)
    IN /\ input = w.input
       /\ temp_idx = w.temp_idx
       /\ filter = w.filter
       /\ name = w.name
       /\ now_duration = w.now_duration
       /\ probes = w.probes
       /\ gen = w.gen
       /\ err = w.err
       /\ call = NoCall
       /\ trace = <<>>
       /\ cmd = <<>>
       /\ ncalls = 0
       /\ engine = 0
       /\ argv = NoArgv

\* --------------------------------------------------------------- actions
\* one public call on the root: the world it leaves and the call's record
Called(w, op, kw) ==
    /\ ncalls < MaxCalls
    /\ Set(w)
    /\ call' = [NoCall EXCEPT !.op = op, !.kw = kw]
    /\ ncalls' = ncalls + 1
    /\ UNCHANGED <<trace, cmd, engine, argv>>

Scale == \E ratio \in ScaleRatios :
    Called(invoke(Cur, "scale", [ratio |-> ratio], ProbeFailed), "scale", [ratio |-> ratio])

Mirror == Called(invoke(Cur, "mirror", DefaultKw("mirror"), ProbeFailed), "mirror",
                 DefaultKw("mirror"))

Rotate == \E angle \in Angles :
    Called(invoke(Cur, "rotate", [angle |-> angle], ProbeFailed), "rotate", [angle |-> angle])

Brightness == \E b \in Brightnesses :
    Called(invoke(Cur, "brightness", [brightness |-> b], ProbeFailed), "brightness",
           [brightness |-> b])

Crop == \E kw \in CropKws : Called(invoke(Cur, "crop", kw, ProbeFailed), "crop", kw)

Padding == \E kw \in PaddingKws : Called(invoke(Cur, "padding", kw, ProbeFailed), "padding", kw)

Watermark == \E kw \in WatermarkKws :
    Called(invoke(Cur, "watermark", kw, ProbeFailed), "watermark", kw)

Duration == \E kw \in DurationKws, probe \in ProbeAnswers :
    Called(invoke(Cur, "duration", kw, probe), "duration", kw)

GenerateCmd == \E accurate_seek \in BOOLEAN :
    LET g == generate_cmd_on(Cur, TRUE, "out.mp4", TRUE, TRUE, accurate_seek, <<>>)
    IN /\ ncalls < MaxCalls
       /\ cmd' = IF g.err = "" THEN g.cmd ELSE cmd
       /\ call' = [NoCall EXCEPT !.op = "generate_cmd"]
       /\ err' = g.err
       /\ ncalls' = ncalls + 1
       /\ UNCHANGED <<input, temp_idx, filter, name, now_duration, probes, gen, trace,
                      engine, argv>>

\* transform.run('out.mp4'); ffmpeg succeeds or exits non-zero
Run == \E engine_ok \in BOOLEAN :
    LET r == run(Cur, TRUE, "out.mp4", engine_ok)
    IN /\ ncalls < MaxCalls
       /\ cmd' = IF r.engine > 0 THEN r.cmd ELSE cmd
       /\ engine' = engine + r.engine
       /\ call' = [NoCall EXCEPT !.op = "run"]
       /\ err' = r.err
       /\ ncalls' = ncalls + 1
       /\ UNCHANGED <<input, temp_idx, filter, name, now_duration, probes, gen, trace,
                      argv>>

ChildOps == {"duration", "generate_cmd", "run"}
ChildFile == "child.png"

\* Transform(ChildFile, root).duration() / .generate_cmd('out.mp4') /
\* .run('out.mp4'): a root-only method called on a branch made with a parent
ChildCall == \E op \in ChildOps, probe \in {p \in ProbeAnswers : p # ProbeFailed} :
    LET c == Child(Cur, ChildFile)
        d == duration_on(c.w, FALSE, DefaultKw("duration"), probe)
        g == generate_cmd_on(c.w, FALSE, "out.mp4", TRUE, TRUE, FALSE, <<>>)
        r == run(c.w, FALSE, "out.mp4", TRUE)
    IN /\ ncalls < MaxCalls
       /\ Set(IF op = "duration" THEN d
              ELSE [c.w EXCEPT !.err = IF op = "run" THEN r.err ELSE g.err])
       /\ cmd' = IF op = "generate_cmd" /\ g.err = "" THEN g.cmd
                 ELSE IF op = "run" /\ r.engine > 0 THEN r.cmd ELSE cmd
       /\ engine' = IF op = "run" THEN engine + r.engine ELSE engine
       /\ call' = [NoCall EXCEPT !.op = "child." \o op]
       /\ ncalls' = ncalls + 1
       /\ UNCHANGED <<trace, argv>>

\* k = None resolves to some k in 1..len(methods), which is among the k tried
Mixed == \E mi \in MixedInputs, probe \in ProbeAnswers :
    \E k \in 0..(Len(mi.ms) + 1) :
      \E sample \in (IF k <= Len(mi.ms) THEN Samples(Len(mi.ms), k) ELSE {<<>>}) :
        \E kws \in KwSeqs(mi.args, [i \in 1..Len(sample) |-> mi.ms[sample[i]]]) :
          LET r == mixed(Cur, mi.ms, k, sample, kws, probe)
          IN /\ ncalls < MaxCalls
             /\ Set(r.w)
             /\ trace' = r.trace
             /\ call' = [NoCall EXCEPT !.op = "mixed", !.ms = mi.ms, !.k = k,
                                       !.sample = sample, !.noargs = mi.noargs]
             /\ ncalls' = ncalls + 1
             /\ UNCHANGED <<cmd, engine, argv>>

Next ==
    \/ Scale
    \/ Mirror
    \/ Rotate
    \/ Brightness
    \/ Crop
    \/ Padding
    \/ Watermark
    \/ Duration
    \/ GenerateCmd
    \/ Run
    \/ ChildCall
    \/ Mixed

Spec == Init /\ [][Next]_vars

\* ------------------------------------------------------------ command.py
\* The command-line driver.  A parsed command line is
\* [input, function, mixed, image]: the input files as [stem, ext], the
\* --function list (<<>> when not given), the --mixed flag and the
\* --watermark_image list (<<>> when not given); --randomize and
\* --output_folder are not given, every other option is given with the
\* value DefaultKw has for it.

Range(s) == {s[i] : i \in 1..Len(s)}

Path(file) == file.stem \o file.ext

\* output_original_folder: '_transformed'.join(os.path.splitext(input))
assign_output(file) == file.stem \o "_transformed" \o file.ext

\* a world before any Transform was constructed
NoTransform ==
    [input |-> <<>>, temp_idx |-> 0, filter |-> <<>>, name |-> None,
     now_duration |-> NoDuration, probes |-> 0, gen |-> <<>>, err |-> ""]

\* the key the apply loop looks up in arguments
ArgumentsKey == "method"

\* lines 121-147: [err, methods, arguments], arguments the dict from each
\* method to its keyword arguments
collect_arguments(a) ==
    LET tm == IF a.function # <<>> THEN a.function ELSE methods
    IN IF a.function = <<>> /\ ~a.mixed
       THEN [err |-> "AssertionError: should apply at least 1 transform method",
             methods |-> tm, arguments |-> <<>>]
       ELSE IF \E i \in 1..Len(tm) : tm[i] \notin MethodNames
       THEN [err |-> "AttributeError: type object 'Transform' has no attribute",
             methods |-> tm, arguments |-> <<>>]
       ELSE IF "watermark" \in Range(tm) /\ a.image = <<>>
       THEN [err |-> "AssertionError: should specify watermark image",
             methods |-> tm, arguments |-> <<>>]
       ELSE IF "watermark" \in Range(tm) /\ Len(a.image) # 1
       THEN [err |-> "AssertionError: should supply only 1 watermark image when randomization is not enabled",
             methods |-> tm, arguments |-> <<>>]
       ELSE [err |-> "", methods |-> tm,
             arguments |-> [m \in Range(tm) |->
                              IF m = "watermark"
                              THEN [DefaultKw(m) EXCEPT !.image = a.image[1]]
                              ELSE DefaultKw(m)]]

RECURSIVE apply_functions(_, _, _, _, _)
\* the inner loop of lines 155-156 from its i-th method on: [w, trace]
apply_functions(w, tm, arguments, probe, i) ==
    IF i > Len(tm)
    THEN [w |-> w, trace |-> [j \in 1..Len(tm) |-> j]]
    ELSE IF ArgumentsKey \notin DOMAIN arguments
    THEN [w |-> [w EXCEPT !.err = "KeyError: 'method'"],
          trace |-> [j \in 1..(i - 1) |-> j]]
    ELSE LET w1 == invoke(w, tm[i], arguments[ArgumentsKey], probe)
         IN IF w1.err # ""
            THEN [w |-> w1, trace |-> [j \in 1..(i - 1) |-> j]]
            ELSE apply_functions(w1, tm, arguments, probe, i + 1)

RECURSIVE transform_inputs(_, _, _, _, _, _, _)
\* the loop of lines 153-157 from its i-th input on; st is
\* [w, trace, engine, cmd] after the inputs before it
transform_inputs(st, inputs, tm, arguments, probe, engine_ok, i) ==
    IF i > Len(inputs)
    THEN st
    ELSE LET f == apply_functions(Transform(Path(inputs[i])), tm, arguments, probe, 1)
             r == run(f.w, TRUE, assign_output(inputs[i]), engine_ok)
         IN IF f.w.err # ""
            THEN [st EXCEPT !.w = f.w, !.trace = f.trace]
            ELSE IF r.err # ""
            THEN [w |-> [f.w EXCEPT !.err = r.err], trace |-> f.trace,
                  engine |-> st.engine + r.engine, cmd |-> r.cmd]
            ELSE transform_inputs([w |-> f.w, trace |-> f.trace,
                                   engine |-> st.engine + r.engine, cmd |-> r.cmd],
                                  inputs, tm, arguments, probe, engine_ok, i + 1)

\* the module body of command.py from line 121 on: [w, trace, engine, cmd]
command(a, probe, engine_ok) ==
    LET c == collect_arguments(a)
        st == [w |-> NoTransform, trace |-> <<>>, engine |-> 0, cmd |-> <<>>]
    IN IF c.err # ""
       THEN [st EXCEPT !.w.err = c.err]
       ELSE IF a.mixed
       THEN [st EXCEPT !.w.err =
               "TypeError: mixed() takes from 1 to 4 positional arguments but 5 were given"]
       ELSE transform_inputs(st, a.input, c.methods, c.arguments, probe, engine_ok, 1)

FunctionNames == {"mirror", "scale", "watermark", "method"}
MaxFunctions == 2
FunctionLists ==
    UNION {[1..n -> FunctionNames] : n \in 0..MaxFunctions}
InputLists ==
    {<<[stem |-> "a", ext |-> ".mp4"]>>,
     <<[stem |-> "a", ext |-> ".mp4"], [stem |-> "b", ext |-> ".mp4"]>>}
ImageLists == {<<>>, <<"logo.png">>, <<"logo.png", "logo2.png">>}
Argvs ==
    [input : InputLists, function : FunctionLists, mixed : BOOLEAN, image : ImageLists]

\* python command.py <argv>, before the module body has run
DriverInit ==
    /\ argv \in Argvs
    /\ input = NoTransform.input
    /\ temp_idx = NoTransform.temp_idx
    /\ filter = NoTransform.filter
    /\ name = NoTransform.name
    /\ now_duration = NoTransform.now_duration
    /\ probes = NoTransform.probes
    /\ gen = NoTransform.gen
    /\ err = NoTransform.err
    /\ call = [NoCall EXCEPT !.op = "parse_args"]
    /\ trace = <<>>
    /\ cmd = <<>>
    /\ ncalls = 0
    /\ engine = 0

\* the module body runs to its end or to the exception that ends it
Command == \E probe \in ProbeAnswers, engine_ok \in BOOLEAN :
    LET r == command(argv, probe, engine_ok)
    IN /\ call.op = "parse_args"
       /\ Set(r.w)
       /\ trace' = r.trace
       /\ engine' = r.engine
       /\ cmd' = r.cmd
       /\ call' = [NoCall EXCEPT !.op = "command.py"]
       /\ ncalls' = ncalls + 1
       /\ UNCHANGED argv

DriverNext == Command

DriverSpec == DriverInit /\ [][DriverNext]_vars

\* =============================================================== claims
ChainOps == {"scale", "mirror", "rotate", "brightness", "crop", "padding"}

\* the tokens a chaining method hands to __chain ('' if it chains nothing)
FragOf(op, kw) ==
    SelfBranch(invoke([Transform(RootFile) EXCEPT !.name = None, !.filter = <<>>],
                      op, kw, ProbeFailed)).filter

RECURSIVE JoinFrags(_)
\* the non-empty fragments of fs joined by ","
JoinFrags(fs) ==
    IF fs = <<>> THEN <<>>
    ELSE IF Head(fs) = <<>> THEN JoinFrags(Tail(fs))
    ELSE LET rest == JoinFrags(Tail(fs))
         IN IF rest = <<>> THEN Head(fs) ELSE Head(fs) \o <<",">> \o rest

Separators == {",", ";"}

\* ---------------------------------------------------------------- C1
\* C1: the temporary names __gen_temp has produced are "temp1", "temp2", ...
\* in that order (N strictly increasing from 1), so they are pairwise
\* distinct, whatever merges and chaining calls produced them.
C1_TempNamesUnique ==
    /\ \A i \in 1..Len(gen) : gen[i] = "temp" \o FmtInt(i)
    /\ \A i, j \in 1..Len(gen) : i # j => gen[i] # gen[j]
    /\ temp_idx = Len(gen)

\* three temporaries: a merge of a filtered child, then another merge that
\* closes the root and a second filtered child
C1_Witness == Len(gen) >= 3 /\ Len(input) >= 3

\* ---------------------------------------------------------------- C2
\* C2: the root's graph text never starts with a separator and never has an
\* empty statement between two ';'.
C2_WellFormed ==
    /\ filter # <<>> => Head(filter) \notin Separators
    /\ \A i \in 1..(Len(filter) - 1) : ~(filter[i] = ";" /\ filter[i + 1] = ";")

\* ---------------------------------------------------------------- C3
\* C3: once a merge has happened the root is unlabeled, and a chaining call
\* made right after a watermark call appends ',' and its fragment to the
\* merge's statement, writes no label and takes no temporary name.
C3_MergeLeavesUnlabeled ==
    [][/\ (Len(input') > Len(input) /\ call'.op \in {"watermark", "mixed"}) =>
            name' = None
       /\ (call.op = "watermark" /\ err = "" /\ call'.op \in ChainOps) =>
            /\ filter' = filter \o (IF FragOf(call'.op, call'.kw) = <<>> THEN <<>>
                                    ELSE <<",">> \o FragOf(call'.op, call'.kw))
            /\ temp_idx' = temp_idx
            /\ gen' = gen
            /\ name' = None]_vars

\* mirror called right after watermark(..., x=10, y=20)
C3_Witness ==
    /\ call.op = "mirror"
    /\ ncalls = 2
    /\ Len(filter) >= 3
    /\ filter[Len(filter)] = "hflip"
    /\ filter[Len(filter) - 1] = ","
    /\ filter[Len(filter) - 2] = "overlay=10:20"

\* ---------------------------------------------------------------- C4
\* C4: a duration call that succeeds leaves a window inside the previous one
\* (inside (0, total) for the first call), and multiplies the window's
\* length by ratio, so that two narrowings give original * b1 * b2.
C4_WindowContained ==
    [][(call'.op = "duration" /\ err' = "") =>
         IF now_duration = NoDuration
         THEN /\ now_duration'[1] >= 0
              /\ now_duration'[1] <= now_duration'[2]
         ELSE /\ now_duration[1] * now_duration'[3] <= now_duration'[1] * now_duration[3]
              /\ now_duration'[2] * now_duration[3] <= now_duration[2] * now_duration'[3]
              /\ (now_duration'[2] - now_duration'[1]) * now_duration[3] * call'.kw.ratio[2]
                   = (now_duration[2] - now_duration[1]) * call'.kw.ratio[1] * now_duration'[3]
      ]_vars

\* ---------------------------------------------------------------- C5
\* the argument that follows flag in the command, "" if flag is not there
ArgAfter(c, flag) ==
    IF \E i \in 1..(Len(c) - 1) : c[i] = flag
    THEN c[(CHOOSE i \in 1..(Len(c) - 1) : c[i] = flag) + 1]
    ELSE ""

\* C5: generate_cmd emits '-ss <start> -t <end - start>' when the trim
\* window is (start, end), and neither flag when there is no window.
C5_TrimArgs ==
    call.op = "generate_cmd" =>
        IF now_duration = NoDuration
        THEN \A i \in 1..Len(cmd) : cmd[i] \notin {"-ss", "-t"}
        ELSE /\ ArgAfter(cmd, "-ss") = FmtFloat(now_duration[1], now_duration[3])
             /\ ArgAfter(cmd, "-t") = FmtFloat(now_duration[2] - now_duration[1],
                                               now_duration[3])

\* ---------------------------------------------------------------- C6
\* C6: duration(start_ratio, ratio) with start_ratio + ratio > 1.0 raises the
\* 'should not longer than original video' assertion, leaves the trim window
\* as it was and does not run ffprobe.
C6_InvalidWindowRejected ==
    [][(/\ call'.op = "duration"
        /\ call'.kw.start_ratio[1] * call'.kw.ratio[2]
             + call'.kw.ratio[1] * call'.kw.start_ratio[2]
           > call'.kw.start_ratio[2] * call'.kw.ratio[2]) =>
         /\ err' = "AssertionError: should not longer than original video"
         /\ now_duration' = now_duration
         /\ probes' = probes]_vars

\* the rejected call came first: the window is still None, ffprobe never ran
C6_Witness ==
    /\ call.op = "duration"
    /\ err = "AssertionError: should not longer than original video"
    /\ now_duration = NoDuration
    /\ probes = 0

\* ---------------------------------------------------------------- C7
\* C7: mixed with k greater than the number of methods raises ValueError
\* before any method is invoked: graph text, registry, counter and trim
\* window are unchanged.
C7_OversizedKRejected ==
    [][(call'.op = "mixed" /\ call'.k > Len(call'.ms)) =>
         /\ err' = "ValueError: Sample larger than population or is negative"
         /\ trace' = <<>>
         /\ UNCHANGED <<filter, name, input, temp_idx, gen, now_duration, probes>>]_vars

\* an oversized k on a root that already has a graph
C7_Witness ==
    /\ call.op = "mixed"
    /\ call.k > Len(call.ms)
    /\ err = "ValueError: Sample larger than population or is negative"
    /\ filter # <<>>

\* ---------------------------------------------------------------- C8
\* C8: mixed with k = len(methods) and args = {} calls every method exactly
\* once, in some permutation, and does not fail.
C8_AllAppliedOnce ==
    (call.op = "mixed" /\ call.noargs /\ call.k = Len(call.ms)) =>
        /\ err = ""
        /\ Len(trace) = Len(call.ms)
        /\ \A p \in 1..Len(call.ms) : \E i \in 1..Len(trace) : trace[i] = p

\* ---------------------------------------------------------------- C9
\* C9: one mixed call with 0 <= k <= len(methods) invokes exactly k methods,
\* all taken from methods, no method twice, in the sampled order.
C9_ExactlyKDistinct ==
    (call.op = "mixed" /\ call.k <= Len(call.ms)) =>
        /\ Len(trace) = call.k
        /\ trace = call.sample
        /\ \A i, j \in 1..Len(trace) :
             i # j => call.ms[trace[i]] # call.ms[trace[j]]

\* C9 (amended): one mixed call with 0 <= k <= len(methods) samples k
\* pairwise distinct positions of methods and invokes the methods at those
\* positions in the sampled order, stopping at the first one that raises:
\* exactly k are invoked when none raises, fewer when one does.  A method
\* name runs twice only if it stands at two positions of methods.
C9_SampledPrefix ==
    (call.op = "mixed" /\ call.k <= Len(call.ms)) =>
        /\ Len(call.sample) = call.k
        /\ \A i \in 1..call.k : call.sample[i] \in 1..Len(call.ms)
        /\ \A i, j \in 1..call.k : i # j => call.sample[i] # call.sample[j]
        /\ Len(trace) <= call.k
        /\ trace = SubSeq(call.sample, 1, Len(trace))
        /\ err = "" <=> Len(trace) = call.k

\* brightness sampled before crop: applied in the sampled order
C9_Witness ==
    /\ call.op = "mixed"
    /\ call.k = 2
    /\ err = ""
    /\ trace = <<2, 1>>
    /\ Text(filter) = "[0]eq=brightness=0.0,crop=iw:ih:0:0"

\* ---------------------------------------------------------------- C10
\* the graph text watermark(kw) leaves on a root whose text was f, name nm,
\* counter t, with n inputs registered
WatermarkText(f, nm, t, n, kw) ==
    LET anon == [filter |-> <<>>, name |-> None]
        frags == JoinFrags(<<scale(anon, kw.scale).filter,
                             rotate(anon, kw.angle).filter,
                             alpha(anon, kw.alpha).filter>>)
        t1 == IF nm = None THEN t + 1 ELSE t
        callerNode == IF nm = None THEN "temp" \o FmtInt(t1) ELSE nm
        callerText == IF nm = None THEN f \o Label(callerNode) ELSE f
        childNode == IF frags = <<>> THEN FmtInt(n) ELSE "temp" \o FmtInt(t1 + 1)
        childText == IF frags = <<>> THEN <<>>
                     ELSE Label(FmtInt(n)) \o frags \o Label(childNode)
    IN callerText \o (IF callerText = <<>> THEN <<>> ELSE <<";">>) \o childText
       \o <<";">> \o Label(callerNode) \o Label(childNode)
       \o <<"overlay=" \o FmtInt(kw.x) \o ":" \o FmtInt(kw.y)>>

WatermarkExample ==
    [image |-> "logo.png", alpha |-> <<1, 2>>, x |-> 10, y |-> 20,
     scale |-> <<1, 1>>, angle |-> 0]

\* C10: watermark registers image as a new input, applies scale, rotate and
\* alpha in that order to the child and merges it: the text is the caller's
\* statement, the child's statement (labeled by its temporary when it has a
\* filter), ';' and '[caller][child]overlay=x:y'; the example call on an
\* untouched input 0 gives exactly
\* '[1]format=rgba,colorchannelmixer=aa=0.5[temp1];[0][temp1]overlay=10:20'.
C10_WatermarkText ==
    [][(call'.op = "watermark" /\ err' = "") =>
         /\ input' = Append(input, call'.kw.image)
         /\ filter' = WatermarkText(filter, name, temp_idx, Len(input), call'.kw)
         /\ (call'.kw = WatermarkExample /\ filter = <<>> /\ name = "0"
                /\ Len(input) = 1) =>
              Text(filter') =
                "[1]format=rgba,colorchannelmixer=aa=0.5[temp1];[0][temp1]overlay=10:20"
      ]_vars

\* the example call made first on the untouched root
C10_Witness ==
    /\ call.op = "watermark"
    /\ ncalls = 1
    /\ Text(filter) = "[1]format=rgba,colorchannelmixer=aa=0.5[temp1];[0][temp1]overlay=10:20"


C12_NoPartialSuccess ==
    (err # "" /\ err # EngineFailed /\ engine = 0) => probes = 0

\* C12 (amended): an operation that raises never starts the engine and
\* produces no command; the engine is started only by run on the root, once,
\* with the full command generated from the graph as it stands.  The duration
\* probe, however, is queried while the graph is being assembled, so an abort
\* may come after the probe was queried.
C12_AbortBeforeEngine ==
    [][ /\ (err' # "" /\ err' # EngineFailed) => (engine' = engine /\ cmd' = cmd)
        /\ (engine' # engine) =>
               /\ call'.op = "run"
               /\ engine' = engine + 1
               /\ cmd' = generate_cmd(Cur, "out.mp4", TRUE, TRUE, FALSE, <<>>)
               /\ <<input', filter', now_duration'>> = <<input, filter, now_duration>>
      ]_vars

\* run on a branch aborted after the probe had been queried, engine untouched
C12_Witness ==
    call.op = "child.run" /\ err = RootRequired /\ probes = 1 /\ engine = 0

\* ---------------------------------------------------------------- C13

\* C13: generate_cmd and duration called on a branch created with a parent
\* fail with the root-required assertion error and leave the root's trim
\* window, graph text and counter alone and the probe unqueried; on the root
\* they never fail with that error.
C13_RootOnly ==
    [][ /\ (call'.op \in {"child.duration", "child.generate_cmd"}) =>
               /\ err' = RootRequired
               /\ <<now_duration', filter', temp_idx', probes', cmd'>>
                      = <<now_duration, filter, temp_idx, probes, cmd>>
        /\ (call'.op \in {"duration", "generate_cmd", "run", "mixed"}) =>
               err' # RootRequired
      ]_vars

\* duration on a branch of a root that already has a window and a graph
C13_Witness ==
    /\ call.op = "child.duration" /\ err = RootRequired
    /\ now_duration # NoDuration /\ filter # <<>>


\* ---------------------------------------------------------------- C16

\* C16: across any sequence of duration calls on one root the duration probe
\* is queried at most once.
C16_ProbedAtMostOnce == probes <= 1

\* C16 (amended): the probe is queried only by a duration call that passed the
\* ratio check while the root has no trim window, once per such call; a
\* successful answer is memoized in the window and from then on no call
\* queries the probe again.  A failed query memoizes nothing, so the next
\* duration call queries the probe again.
C16_ProbeMemoized ==
    [][ /\ (now_duration # NoDuration) => (probes' = probes)
        /\ (probes' # probes) =>
               /\ probes' = probes + 1
               /\ call'.op \in {"duration", "mixed"}
               /\ now_duration = NoDuration
               /\ err' # "AssertionError: should not longer than original video"
               /\ (err' = "ffprobe failed") <=> (now_duration' = NoDuration)
        /\ (now_duration = NoDuration /\ now_duration' # NoDuration) =>
               probes' = probes + 1
      ]_vars

\* two narrowing calls, the second one served from the memoized window
C16_Witness ==
    call.op = "duration" /\ err = "" /\ now_duration = <<6, 8, 1>> /\ probes = 1


\* ---------------------------------------------------------------- C15

\* positions of the '[' of every label '[n]' in a token sequence
LabelsAt(toks) ==
    {p \in 1..(Len(toks) - 2) : toks[p] = "[" /\ toks[p + 2] = "]"}

\* n is one of the temporary names temps
IsTemp(n, temps) == \E i \in 1..Len(temps) : n = temps[i]

\* the labels of toks that are not temporaries: the input references
InputRefsAt(toks, temps) == {p \in LabelsAt(toks) : ~IsTemp(toks[p + 1], temps)}

\* C15: the registry is append-only and index-stable: entries are never
\* removed or reordered, a newly registered input is referenced in the graph
\* text by its index, every input reference '[i]' has i < number of
\* registered inputs, and generate_cmd emits one '-i <path>' per registered
\* input, in registry order.
C15_RegistryStable ==
    [][ /\ Len(input') >= Len(input)
        /\ SubSeq(input', 1, Len(input)) = input
        /\ \A p \in InputRefsAt(filter', gen') :
               \E i \in 0..(Len(input') - 1) : filter'[p + 1] = FmtInt(i)
        /\ (call'.op \in {"watermark", "mixed"}) =>
               \A i \in Len(input)..(Len(input') - 1) :
                   \E p \in InputRefsAt(filter', gen') :
                       p > Len(filter) /\ filter'[p + 1] = FmtInt(i)
        /\ (call'.op \in {"generate_cmd", "run"} /\ err' \in {"", EngineFailed}) =>
               /\ Len(cmd') >= 2 * Len(input') + 2
               /\ \A i \in 1..Len(input') :
                      cmd'[2 * i] = "-i" /\ cmd'[2 * i + 1] = input'[i]
               /\ cmd'[2 * Len(input') + 2] # "-i"
      ]_vars

\* a command for three inputs whose third is referenced as '[2]'
C15_Witness ==
    /\ call.op = "generate_cmd" /\ Len(input) = 3
    /\ cmd[6] = "-i" /\ cmd[7] = "logo.png"
    /\ \E p \in InputRefsAt(filter, gen) : filter[p + 1] = "2"


\* ---------------------------------------------------------------- C17

\* the positions where the label '[n]' stands in the graph text
Occurrences(n) == {p \in LabelsAt(filter) : filter[p + 1] = n}

\* the label at p closes a statement: a fragment before it, ';' after it
IsOutputLabel(p) ==
    /\ p > 1 /\ filter[p - 1] \notin {";", "]", "["}
    /\ p + 3 <= Len(filter) /\ filter[p + 3] = ";"

\* the label at p is one of the two input labels of a merge statement
IsMergeInput(p) ==
    /\ p + 3 <= Len(filter)
    /\ \/ (p = 1 \/ filter[p - 1] = ";") /\ filter[p + 3] = "["
       \/ p > 3 /\ filter[p - 1] = "]" /\ filter[p - 3] = "["
          /\ (p = 4 \/ filter[p - 4] = ";") /\ filter[p + 3] \notin Separators

\* C17: every temporary name occurs exactly twice in the root's graph text,
\* first as the trailing output label of a statement and later as an input
\* label of a merge statement, and every registered input index is
\* referenced at most once.
C17_TempsPaired ==
    /\ \A i \in 1..Len(gen) :
           /\ Cardinality(Occurrences(gen[i])) = 2
           /\ \E p, q \in Occurrences(gen[i]) :
                  p < q /\ IsOutputLabel(p) /\ IsMergeInput(q)
    /\ \A i \in 0..(Len(input) - 1) : Cardinality(Occurrences(FmtInt(i))) <= 1

\* three temporaries, each written and consumed, next to three input labels
C17_Witness ==
    /\ Len(gen) = 3
    /\ Cardinality({p \in LabelsAt(filter) : IsTemp(filter[p + 1], gen)}) = 6
    /\ Cardinality(InputRefsAt(filter, gen)) = 3


\* ---------------------------------------------------------------- C14

\* C14: without --mixed, the driver applies the methods given in --function
\* to each input, in the given order and with the arguments collected for
\* each method, and then runs the transform of that input.
C14_DriverAppliesInOrder ==
    (/\ call.op = "command.py"
     /\ ~argv.mixed
     /\ argv.function # <<>>
     /\ \A i \in 1..Len(argv.function) : argv.function[i] \in MethodNames
     /\ "watermark" \in Range(argv.function) => Len(argv.image) = 1) =>
        /\ err \in {"", EngineFailed}
        /\ trace = [j \in 1..Len(argv.function) |-> j]
        /\ engine >= 1
        /\ cmd # <<>>

====
